---------------------------- MODULE Spec2Model ----------------------------
(***************************************************************************)
(* Model of analysis_app (mypipy): the pipe-flow engine of                 *)
(* fluid_mechanics.py, the lookup tables of data_tables.py and the request *)
(* handler of views.py.                                                    *)
(*                                                                         *)
(* Numbers.  A Python float is modelled as an exact rational <<n, d>> in   *)
(* lowest terms with d > 0: the arithmetic of the code is carried out      *)
(* exactly, IEEE rounding is not modelled.  Two things of float arithmetic *)
(* that change control flow are modelled: division by zero raises          *)
(* ZeroDivisionError, and float ** raises OverflowError once the result    *)
(* leaves the float range (FloatSqrtMax stands for sqrt(DBL_MAX)).         *)
(*                                                                         *)
(* scipy.optimize.root_scalar, np.log10 and np.sqrt are library code: the  *)
(* root finder is a loop of at most maxiter iterations, each calling the   *)
(* callback once, that ends by raising or by returning (converged, root);  *)
(* which of these happens, and the sign of a transcendental residual, is a *)
(* nondeterministic choice over every outcome the library can produce.     *)
(***************************************************************************)
EXTENDS Integers, Sequences, FiniteSets, TLC

(***************************************************************************)
(* Rational arithmetic                                                     *)
(***************************************************************************)
Abs(x) == IF x < 0 THEN -x ELSE x

RECURSIVE GCD(_, _)
GCD(a, b) == IF b = 0 THEN a ELSE GCD(b, a % b)

\* n/d in lowest terms with a positive denominator (d # 0)
Rat(n, d) ==
    LET g == GCD(Abs(n), Abs(d))
        s == IF d < 0 THEN -1 ELSE 1
    IN  << (s * n) \div g, (s * d) \div g >>

Int2R(n) == << n, 1 >>
Zero == Int2R(0)

\* the operations reduce before they multiply, so that the products stay small
RMul(x, y) ==
    LET g1 == GCD(Abs(x[1]), y[2])
        g2 == GCD(Abs(y[1]), x[2])
    IN  IF x[1] = 0 \/ y[1] = 0 THEN << 0, 1 >>
        ELSE << (x[1] \div g1) * (y[1] \div g2),
                (x[2] \div g2) * (y[2] \div g1) >>
RAdd(x, y) ==
    LET g == GCD(x[2], y[2])
    IN  Rat(x[1] * (y[2] \div g) + y[1] * (x[2] \div g),
            (x[2] \div g) * y[2])
RNeg(x) == << -x[1], x[2] >>
RSub(x, y) == RAdd(x, RNeg(y))
\* x / y for y # 0 (the callers model the ZeroDivisionError of y = 0)
RDiv(x, y) ==
    RMul(x, IF y[1] < 0 THEN << -y[2], -y[1] >> ELSE << y[2], y[1] >>)
\* a/b < c/d for b, d > 0, by continued fractions: exact, and free of the
\* products a*d and c*b
RECURSIVE FracLt(_, _, _, _)
FracLt(a, b, c, d) ==
    LET qa == a \div b
        qc == c \div d
        ra == a % b
        rc == c % d
    IN  IF qa # qc THEN qa < qc
        ELSE IF rc = 0 THEN FALSE
        ELSE IF ra = 0 THEN TRUE
        ELSE FracLt(d, rc, b, ra)
RLt(x, y) == FracLt(x[1], x[2], y[1], y[2])
RLe(x, y) == ~RLt(y, x)
RPos(x) == x[1] > 0
RNonPos(x) == x[1] <= 0
RIsZero(x) == x[1] = 0
RMax(x, y) == IF RLt(x, y) THEN y ELSE x
RMin(x, y) == IF RLt(y, x) THEN y ELSE x
\* np.sign
RSign(x) == IF x[1] > 0 THEN 1 ELSE IF x[1] < 0 THEN -1 ELSE 0

(***************************************************************************)
(* Bounds of the model and constants of the program                        *)
(***************************************************************************)
\* maxiter=200 of every root_scalar call
MAXITER == 200
\* Re < 2000 is laminar
LAMINAR_LIMIT == 2000
\* stand-in for sqrt(DBL_MAX): D ** 2 overflows from here on
FloatSqrtMax == 1000

(***************************************************************************)
(* fluid_mechanics.py: the pure formulas                                   *)
(***************************************************************************)
G_SI == << 981, 100 >>
G_INGLES == << 161, 5 >>

\* get_constants(system)[0]
get_constants(system) == IF system = "SI" THEN G_SI ELSE G_INGLES

\* a result of a call that may raise: exc = "none" and a value, or the exception
Ok(v) == [exc |-> "none", val |-> v]
Raise(e) == [exc |-> e, val |-> Zero]

kinematic_viscosity(mu, rho) ==
    IF RNonPos(rho) THEN Raise("ValueError") ELSE Ok(RDiv(mu, rho))

reynolds_number(V, D, nu) ==
    IF RNonPos(V) \/ RNonPos(D) \/ RNonPos(nu) THEN Zero
    ELSE RDiv(RMul(V, D), nu)

\* the dispatch with the laminar limit taken inclusive
Regime_Inclusive(Re) ==
    IF RNonPos(Re) THEN "invalid"
    ELSE IF RLe(Re, Int2R(LAMINAR_LIMIT)) THEN "laminar"
    ELSE "turbulent"

\* the regime dispatch at the head of colebrook_white_friction_factor
Regime(Re) ==
    IF RNonPos(Re) THEN "invalid"
    ELSE IF RLt(Re, Int2R(LAMINAR_LIMIT)) THEN "laminar"
    ELSE "turbulent"

LaminarF(Re) == RDiv(Int2R(64), Re)

\* the head loss of the pipe alone, the fittings left out
total_head_loss_NoMinor(f, L, D, V, sum_K, g) ==
    IF RNonPos(D) \/ RNonPos(g) THEN Zero
    ELSE RMul(RMul(f, RDiv(L, D)), RDiv(RMul(V, V), RMul(Int2R(2), g)))

total_head_loss(f, L, D, V, sum_K, g) ==
    IF RNonPos(D) \/ RNonPos(g) THEN Zero
    ELSE LET velocity_head == RDiv(RMul(V, V), RMul(Int2R(2), g))
             Hf == RMul(RMul(f, RDiv(L, D)), velocity_head)
             Hm == RMul(sum_K, velocity_head)
         IN  RAdd(Hf, Hm)

pressure_drop(rho, g, hL) == RMul(RMul(rho, g), hL)

\* an efficiency that is not positive taken as the default of 1.0
pumping_power_DefaultEta(Q, delta_P, system, efficiency) ==
    LET eta == IF RNonPos(efficiency) THEN Int2R(1) ELSE efficiency
        power_brute == RMul(Q, delta_P)
    IN  IF system = "SI" THEN Ok(RDiv(power_brute, eta))
        ELSE Ok(RDiv(RDiv(power_brute, Int2R(550)), eta))

pumping_power(Q, delta_P, system, efficiency) ==
    IF RNonPos(efficiency) THEN Raise("ValueError")
    ELSE LET power_brute == RMul(Q, delta_P)
         IN  IF system = "SI" THEN Ok(RDiv(power_brute, efficiency))
             ELSE Ok(RDiv(RDiv(power_brute, Int2R(550)), efficiency))


(***************************************************************************)
(* State                                                                   *)
(***************************************************************************)
VARIABLES
    \* colebrook_white_friction_factor: the frame of the call in progress
    fpc,        \* position in the function
    fcaller,    \* "direct" (a caller outside the engine) or "F" (from F(V))
    fRe, fEps,  \* the arguments Re and epsilon_D
    f_guess,    \* the local f_guess
    fx0, fx1,   \* the secant seeds x0 and x1
    fiter,      \* iterations done by the root_scalar call in progress
    fsol,       \* the value root_scalar returned, awaiting the test on it
    ftried,     \* the strategies entered so far, in order
    fret,       \* the value returned
    fdiag,      \* the warnings this call issued
    \* solve_velocity: the frame of the call in progress
    vpc, vin, vArea, vph, vtrial, vF, f_low, viter, vsol, vtried,
    vx0, vx1, vret, vexc, vdiag,
    \* get_minor_loss_k: the call made and its result
    kpc, kin, kout,
    \* the forward path: the inputs of a run and the values it computed
    wpc, win, wout,
    \* generate_hl_vs_v_data: the call made, its result, and the call before
    cpc, cin, cout, cprev,
    \* calculate_fluid_flow: the request and the locals of the handler
    hpc, hreq, hV, hQ, hArea, hresults, hchart,
    \* the warnings machinery of the process and the calculations of two
    \* request threads
    tpc, tcase, tprod, tobs, registry, stderr

fvars == << fpc, fcaller, fRe, fEps, f_guess, fx0, fx1, fiter, fsol, ftried,
            fret, fdiag >>
vvars == << vpc, vin, vArea, vph, vtrial, vF, f_low, viter, vsol, vtried,
            vx0, vx1, vret, vexc, vdiag >>
kvars == << kpc, kin, kout >>
wvars == << wpc, win, wout >>
cvars == << cpc, cin, cout, cprev >>
hvars == << hpc, hreq, hV, hQ, hArea, hresults, hchart >>
tvars == << tpc, tcase, tprod, tobs, registry, stderr >>
\* everything outside the two solvers
ovars == << kvars, wvars, cvars, hvars, tvars >>
vars == << fvars, vvars, ovars >>

(***************************************************************************)
(* colebrook_white_friction_factor                                         *)
(***************************************************************************)
\* what a finished root_scalar call hands back: sol.converged and sol.root
NoSol == [conv |-> FALSE, root |-> Zero]
RootSet == { << -1, 100 >>, Zero, << 3, 100 >> }
Sols == [conv : BOOLEAN, root : RootSet]

\* the test without its sign condition
Accepts_AnyRoot(sol) == sol.conv

\* `if sol.converged and sol.root > 0`
Accepts(sol) == sol.conv /\ RPos(sol.root)

\* the Swamee-Jain estimate 0.25 / log10(eps/3.7 + 5.74/Re^0.9)^2 at the
\* points of the model, to four decimals
SwameeJain(Re, eps) ==
    CASE Re = Int2R(2000)    /\ eps = Zero        -> Ok(<< 511, 10000 >>)
      [] Re = Int2R(2000)    /\ eps = << 1, 20 >> -> Ok(<< 429, 5000 >>)
      [] Re = Int2R(2000)    /\ eps = << 1, 2 >>  -> Ok(<< 3461, 10000 >>)
      [] Re = Int2R(2000)    /\ eps = Int2R(1)   -> Ok(<< 501, 625 >>)
      [] Re = Int2R(200000)  /\ eps = Zero        -> Ok(<< 31, 2000 >>)
      [] Re = Int2R(200000)  /\ eps = << 1, 20 >> -> Ok(<< 359, 5000 >>)
      [] Re = Int2R(200000)  /\ eps = << 1, 2 >>  -> Ok(<< 3311, 10000 >>)
      [] Re = Int2R(200000)  /\ eps = Int2R(1)   -> Ok(<< 3874, 5000 >>)
      [] Re = Int2R(2000000) /\ eps = Zero        -> Ok(<< 13, 1250 >>)
      [] Re = Int2R(2000000) /\ eps = << 1, 20 >> -> Ok(<< 179, 2500 >>)
      [] Re = Int2R(2000000) /\ eps = << 1, 2 >>  -> Ok(<< 3309, 10000 >>)

\* f_guess: the estimate, or 0.02 when computing it raised
FGuess(Re, eps) ==
    LET sj == SwameeJain(Re, eps)
    IN  IF sj.exc = "none" THEN sj.val ELSE << 1, 50 >>

BRACKET_LOW == << 1, 1000000 >>
BRACKET_HIGH == << 1, 10 >>

\* np.sign(colebrook_equation(bracket_low)): 1000 + 2*log10(arg) with
\* arg = eps/3.7 + 2510/Re > 0 is positive for every float arg
SignAtLow(Re, eps) == 1

\* np.sign(colebrook_equation(bracket_high)): 3.16228 + 2*log10(arg) with
\* arg = eps/3.7 + 7.937317/Re is negative exactly when arg < 10^(-1.58114),
\* that is 0.026234; arg is computed in millionths
ArgHighMicro(Re, eps) ==
    (10000000 * eps[1]) \div (37 * eps[2]) + (7937317 * Re[2]) \div Re[1]
SignAtHigh(Re, eps) == IF ArgHighMicro(Re, eps) < 26234 THEN -1 ELSE 1

\* x1 with no upper clamp
SeedX1_NoClamp(g) == RMul(g, << 6, 5 >>)
\* the secant seeds
SeedX0(g) == RMax(BRACKET_LOW, RMul(g, << 4, 5 >>))
SeedX1(g) == RMin(<< 1, 2 >>, RMul(g, << 6, 5 >>))

FIterPcs == {"brentq", "secant", "newton"}
FCheckPcs == {"brentq_check", "secant_check", "newton_check"}
FIdle == fpc = "idle"

\* where control goes when the strategy at pc has failed
FNextStage(pc) ==
    CASE pc \in {"bracket", "brentq", "brentq_check"} -> "secant_seed"
      [] pc \in {"secant", "secant_check"} -> "newton_start"
      [] pc \in {"newton", "newton_check"} -> "fallback"

\* lines 47-51: the call and its regime dispatch
CF_Enter(Re, eps, caller) ==
    /\ fcaller' = caller
    /\ fRe' = Re
    /\ fEps' = eps
    /\ f_guess' = Zero
    /\ fx0' = Zero
    /\ fx1' = Zero
    /\ fiter' = 0
    /\ fsol' = NoSol
    /\ ftried' = << >>
    /\ CASE Regime(Re) = "invalid" ->
              fpc' = "done" /\ fret' = Zero /\ fdiag' = {"invalid_Re"}
         [] Regime(Re) = "laminar" ->
              fpc' = "done" /\ fret' = LaminarF(Re) /\ fdiag' = {}
         [] Regime(Re) = "turbulent" ->
              fpc' = "guess" /\ fret' = Zero /\ fdiag' = {}

\* lines 60-63
CF_Guess ==
    /\ fpc = "guess"
    /\ f_guess' = FGuess(fRe, fEps)
    /\ fpc' = "bracket"
    /\ UNCHANGED << fcaller, fRe, fEps, fx0, fx1, fiter, fsol, ftried, fret,
                    fdiag, vvars, ovars >>

\* lines 67-72: the residual at both ends, then brentq if the signs differ
CF_Bracket ==
    /\ fpc = "bracket"
    /\ ftried' = Append(ftried, "bracket")
    /\ fpc' = IF SignAtLow(fRe, fEps) # SignAtHigh(fRe, fEps)
              THEN "brentq" ELSE FNextStage("bracket")
    /\ fiter' = 0
    /\ UNCHANGED << fcaller, fRe, fEps, f_guess, fx0, fx1, fsol, fret, fdiag,
                    vvars, ovars >>

\* the iteration with no cap on the count
CF_Iter_NoCap ==
    /\ fpc \in FIterPcs
    /\ fiter' = fiter + 1
    /\ UNCHANGED << fpc, fcaller, fRe, fEps, f_guess, fx0, fx1, fsol, ftried,
                    fret, fdiag, vvars, ovars >>

\* one iteration of root_scalar: one more evaluation of colebrook_equation
CF_Iter ==
    /\ fpc \in FIterPcs
    /\ fiter < MAXITER
    /\ fiter' = fiter + 1
    /\ UNCHANGED << fpc, fcaller, fRe, fEps, f_guess, fx0, fx1, fsol, ftried,
                    fret, fdiag, vvars, ovars >>

\* root_scalar returns
CF_Finish ==
    /\ fpc \in FIterPcs
    /\ fiter >= 1
    /\ \E sol \in Sols : fsol' = sol
    /\ fpc' = CASE fpc = "brentq" -> "brentq_check"
                [] fpc = "secant" -> "secant_check"
                [] fpc = "newton" -> "newton_check"
    /\ fiter' = 0
    /\ UNCHANGED << fcaller, fRe, fEps, f_guess, fx0, fx1, ftried, fret,
                    fdiag, vvars, ovars >>

\* root_scalar raises: `except Exception: pass`
CF_LibRaise ==
    /\ fpc \in FIterPcs
    /\ fpc' = FNextStage(fpc)
    /\ fiter' = 0
    /\ UNCHANGED << fcaller, fRe, fEps, f_guess, fx0, fx1, fsol, ftried, fret,
                    fdiag, vvars, ovars >>

\* lines 73-74, 84-85, 92-93
CF_Check ==
    /\ fpc \in FCheckPcs
    /\ IF Accepts(fsol)
       THEN fpc' = "done" /\ fret' = fsol.root
       ELSE fpc' = FNextStage(fpc) /\ fret' = fret
    /\ UNCHANGED << fcaller, fRe, fEps, f_guess, fx0, fx1, fiter, fsol,
                    ftried, fdiag, vvars, ovars >>

\* lines 81-83
CF_SecantSeed ==
    /\ fpc = "secant_seed"
    /\ fx0' = SeedX0(f_guess)
    /\ fx1' = SeedX1(f_guess)
    /\ ftried' = Append(ftried, "secant")
    /\ fsol' = NoSol
    /\ fiter' = 0
    /\ fpc' = "secant"
    /\ UNCHANGED << fcaller, fRe, fEps, f_guess, fret, fdiag, vvars, ovars >>

\* line 91
CF_NewtonStart ==
    /\ fpc = "newton_start"
    /\ ftried' = Append(ftried, "newton")
    /\ fsol' = NoSol
    /\ fiter' = 0
    /\ fpc' = "newton"
    /\ UNCHANGED << fcaller, fRe, fEps, f_guess, fx0, fx1, fret, fdiag,
                    vvars, ovars >>

\* lines 98-99
CF_Fallback ==
    /\ fpc = "fallback"
    /\ ftried' = Append(ftried, "fallback")
    /\ fdiag' = fdiag \cup {"no_convergence"}
    /\ fret' = f_guess
    /\ fsol' = NoSol
    /\ fpc' = "done"
    /\ UNCHANGED << fcaller, fRe, fEps, f_guess, fx0, fx1, fiter, vvars, ovars >>


(***************************************************************************)
(* energy_equation_for_V and solve_velocity                                *)
(***************************************************************************)
PI == << 355, 113 >>

\* the sentinel 1e10 of energy_equation_for_V; only its sign is ever used,
\* and 1e10 is beyond the integers of the checker
F_SENTINEL == << 1000000000, 1 >>

\* float ** 2 raises OverflowError when the square leaves the float range
PowOverflows(D) == Abs(D[1]) >= FloatSqrtMax * D[2]

\* Area = np.pi * (D ** 2) / 4.0
AreaOf(D) ==
    IF PowOverflows(D) THEN Raise("OverflowError")
    ELSE Ok(RDiv(RMul(PI, RMul(D, D)), Int2R(4)))

RECURSIVE ISqrtIn(_, _, _)
ISqrtIn(n, lo, hi) ==
    IF lo >= hi THEN lo
    ELSE LET mid == (lo + hi + 1) \div 2
         IN  IF mid * mid <= n THEN ISqrtIn(n, mid, hi)
             ELSE ISqrtIn(n, lo, mid - 1)
\* np.sqrt of a rational x >= 0, rounded down to a multiple of 1/x[2]
RSqrt(x) == Rat(ISqrtIn(x[1] * x[2], 0, 46340), x[2])

\* delta_z_p = (P1 - P2) / (rho * g) + (z1 - z2)
DeltaZP(in) ==
    IF RIsZero(RMul(in.rho, in.g)) THEN Raise("ZeroDivisionError")
    ELSE Ok(RAdd(RDiv(RSub(in.P1, in.P2), RMul(in.rho, in.g)),
                 RSub(in.z1, in.z2)))

Mid(in) == RDiv(RAdd(in.V_min, in.V_max), Int2R(2))

\* lines 157-163: F(V) returns the sentinel without solving for f
EE_Immediate(V, in) == RNonPos(V) \/ RIsZero(in.D)

\* the balance with the available head added to the losses
EE_Finish_SignError(V, in, f) ==
    LET hL == total_head_loss(f, in.L, in.D, V, in.sum_K, in.g)
        d == DeltaZP(in)
    IN  IF d.exc # "none" THEN Raise(d.exc) ELSE Ok(RAdd(hL, d.val))

\* lines 167-171, with f the friction factor line 166 obtained
EE_Finish(V, in, f) ==
    LET hL == total_head_loss(f, in.L, in.D, V, in.sum_K, in.g)
        d == DeltaZP(in)
    IN  IF d.exc # "none" THEN Raise(d.exc) ELSE Ok(RSub(hL, d.val))

\* lines 203-210
VEst(in) ==
    LET d == DeltaZP(in)
    IN  IF d.exc # "none" THEN Mid(in)
        ELSE IF RPos(d.val)
             THEN RSqrt(RMul(RMul(Int2R(2), in.g), d.val))
             ELSE Mid(in)

\* x0 with no lower clamp
VSeedX0_NoClamp(in) == RMul(VEst(in), << 1, 2 >>)
\* lines 212-213
VSeedX0(in) == RMax(in.V_min, RMul(VEst(in), << 1, 2 >>))
VSeedX1(in) == RMin(in.V_max, RMul(VEst(in), << 3, 2 >>))

VRootSet == { << -1, 1 >>, Zero, << 1, 2 >>, << 2, 1 >> }
VSols == [conv : BOOLEAN, root : VRootSet]

\* F(V) where colebrook_white_friction_factor returns without a root search
\* (Re <= 0 or Re < 2000): there the value of F is a formula of V
FClosedForm(V, in) ==
    /\ ~EE_Immediate(V, in)
    /\ Regime(reynolds_number(V, in.D, in.nu)) # "turbulent"
FClosedValue(V, in) ==
    LET Re == reynolds_number(V, in.D, in.nu)
    IN  EE_Finish(V, in, IF Regime(Re) = "laminar" THEN LaminarF(Re) ELSE Zero)
\* V is known not to be a zero of F
KnownNonRoot(V, in) ==
    /\ FClosedForm(V, in)
    /\ LET F == FClosedValue(V, in)
       IN  F.exc # "none" \/ ~RIsZero(F.val)

\* what root_scalar(method='brentq') can return for bracket=[V_min, V_max]:
\* when it reports convergence, its root lies in the bracket at a point
\* where F changes sign
BrentqSols(in) ==
    { sol \in VSols :
        sol.conv =>
            /\ RLe(in.V_min, sol.root)
            /\ RLe(sol.root, in.V_max)
            /\ ~KnownNonRoot(sol.root, in) }
NoneRet == [ok |-> FALSE, V |-> Zero, Q |-> Zero]
\* the velocity returned in the place of the flow rate as well
SV_Return_NoArea(V, Area) == [ok |-> TRUE, V |-> V, Q |-> V]
\* `return V, V * Area`
SV_Return(V, Area) == [ok |-> TRUE, V |-> V, Q |-> RMul(V, Area)]

VEvalPcs == {"s1_low", "s1_high", "s1_iter", "s2_iter", "s3_iter"}
VIterPcs == {"s1_iter", "s2_iter", "s3_iter"}
VCheckPcs == {"s1_check", "s2_check", "s3_check"}
VIdle == vpc = "idle"

VNextStage(pc) ==
    CASE pc \in {"s1_low", "s1_high", "s1_iter", "s1_check"} -> "s2_seed"
      [] pc \in {"s2_iter", "s2_check"} -> "s3_start"
      [] pc \in {"s3_iter", "s3_check"} -> "no_solution"

\* the points at which root_scalar may evaluate F
TrialV(in) == {Zero, in.V_min, in.V_max}

\* line 182, on entry
SV_Call(in) ==
    /\ VIdle
    /\ FIdle
    /\ vin' = in
    /\ LET a == AreaOf(in.D)
       IN  IF a.exc # "none"
           THEN vpc' = "done" /\ vexc' = a.exc /\ vArea' = Zero
           ELSE vpc' = "s1_low" /\ vexc' = "none" /\ vArea' = a.val
    /\ vph' = "ready"
    /\ vtrial' = Zero
    /\ vF' = Ok(Zero)
    /\ f_low' = Zero
    /\ viter' = 0
    /\ vsol' = NoSol
    /\ vtried' = IF PowOverflows(in.D) THEN << >> ELSE << "bracket" >>
    /\ vx0' = Zero
    /\ vx1' = Zero
    /\ vret' = NoneRet
    /\ vdiag' = {}
    /\ UNCHANGED fvars

\* F(V) is called: lines 157-166. Either the sentinel comes back at once,
\* or colebrook_white_friction_factor is entered
SV_EvalBegin ==
    /\ vpc \in VEvalPcs
    /\ vph = "ready"
    /\ vpc \in VIterPcs => viter < MAXITER
    /\ \E V \in (CASE vpc = "s1_low" -> {vin.V_min}
                   [] vpc = "s1_high" -> {vin.V_max}
                   [] OTHER -> TrialV(vin)) :
          /\ vtrial' = V
          /\ IF EE_Immediate(V, vin)
             THEN /\ vF' = Ok(F_SENTINEL)
                  /\ vph' = "have"
                  /\ UNCHANGED fvars
             ELSE /\ CF_Enter(reynolds_number(V, vin.D, vin.nu),
                              RDiv(vin.eps, vin.D), "F")
                  /\ vph' = "wait"
                  /\ vF' = Ok(Zero)
    /\ UNCHANGED << vpc, vin, vArea, f_low, viter, vsol, vtried, vx0, vx1,
                    vret, vexc, vdiag, ovars >>

\* colebrook_white_friction_factor has returned into F(V): lines 167-171
SV_EvalEnd ==
    /\ vph = "wait"
    /\ fpc = "done"
    /\ fcaller = "F"
    /\ vF' = EE_Finish(vtrial, vin, fret)
    /\ vph' = "have"
    /\ fpc' = "idle"
    /\ UNCHANGED << fcaller, fRe, fEps, f_guess, fx0, fx1, fiter, fsol,
                    ftried, fret, fdiag >>
    /\ UNCHANGED << vpc, vin, vArea, vtrial, f_low, viter, vsol, vtried, vx0,
                    vx1, vret, vexc, vdiag, ovars >>

\* line 190: f_low = F(V_min)
SV_S1Low ==
    /\ vpc = "s1_low"
    /\ vph = "have"
    /\ IF vF.exc # "none"
       THEN vpc' = VNextStage(vpc) /\ f_low' = f_low
       ELSE vpc' = "s1_high" /\ f_low' = vF.val
    /\ vph' = "ready"
    /\ UNCHANGED << vin, vArea, vtrial, vF, viter, vsol, vtried, vx0, vx1,
                    vret, vexc, vdiag, fvars, ovars >>

\* lines 191-193: f_high = F(V_max), then brentq if the signs differ
SV_S1High ==
    /\ vpc = "s1_high"
    /\ vph = "have"
    /\ vpc' = IF vF.exc = "none" /\ RSign(f_low) # RSign(vF.val)
              THEN "s1_iter" ELSE VNextStage(vpc)
    /\ vph' = "ready"
    /\ viter' = 0
    /\ UNCHANGED << vin, vArea, vtrial, vF, f_low, vsol, vtried, vx0, vx1,
                    vret, vexc, vdiag, fvars, ovars >>

\* root_scalar has the value of F at its trial point: one iteration is done,
\* or the exception F raised leaves root_scalar
SV_Iter ==
    /\ vpc \in VIterPcs
    /\ vph = "have"
    /\ IF vF.exc # "none"
       THEN vpc' = VNextStage(vpc) /\ viter' = 0
       ELSE vpc' = vpc /\ viter' = viter + 1
    /\ vph' = "ready"
    /\ UNCHANGED << vin, vArea, vtrial, vF, f_low, vsol, vtried, vx0, vx1,
                    vret, vexc, vdiag, fvars, ovars >>

\* root_scalar returns
SV_Finish ==
    /\ vpc \in VIterPcs
    /\ vph = "ready"
    /\ viter >= 1
    /\ \E sol \in (IF vpc = "s1_iter" THEN BrentqSols(vin) ELSE VSols) :
          vsol' = sol
    /\ vpc' = CASE vpc = "s1_iter" -> "s1_check"
                [] vpc = "s2_iter" -> "s2_check"
                [] vpc = "s3_iter" -> "s3_check"
    /\ viter' = 0
    /\ UNCHANGED << vin, vArea, vph, vtrial, vF, f_low, vtried, vx0, vx1,
                    vret, vexc, vdiag, fvars, ovars >>

\* root_scalar itself raises: `except Exception: pass`
SV_LibRaise ==
    /\ vpc \in VIterPcs
    /\ vph = "ready"
    /\ vpc' = VNextStage(vpc)
    /\ viter' = 0
    /\ UNCHANGED << vin, vArea, vph, vtrial, vF, f_low, vsol, vtried, vx0,
                    vx1, vret, vexc, vdiag, fvars, ovars >>

\* lines 194-196, 215-217, 224-226
SV_Check ==
    /\ vpc \in VCheckPcs
    /\ IF Accepts(vsol)
       THEN vpc' = "done" /\ vret' = SV_Return(vsol.root, vArea)
       ELSE vpc' = VNextStage(vpc) /\ vret' = vret
    /\ UNCHANGED << vin, vArea, vph, vtrial, vF, f_low, viter, vsol, vtried,
                    vx0, vx1, vexc, vdiag, fvars, ovars >>

\* lines 201-214
SV_S2Seed ==
    /\ vpc = "s2_seed"
    /\ vx0' = VSeedX0(vin)
    /\ vx1' = VSeedX1(vin)
    /\ vtried' = Append(vtried, "secant")
    /\ vsol' = NoSol
    /\ viter' = 0
    /\ vpc' = "s2_iter"
    /\ UNCHANGED << vin, vArea, vph, vtrial, vF, f_low, vret, vexc, vdiag,
                    fvars, ovars >>

\* line 223
SV_S3Start ==
    /\ vpc = "s3_start"
    /\ vtried' = Append(vtried, "newton")
    /\ vsol' = NoSol
    /\ viter' = 0
    /\ vpc' = "s3_iter"
    /\ UNCHANGED << vin, vArea, vph, vtrial, vF, f_low, vx0, vx1, vret, vexc,
                    vdiag, fvars, ovars >>

\* lines 230-231
SV_NoSolution ==
    /\ vpc = "no_solution"
    /\ vdiag' = vdiag \cup {"velocity_unsolved"}
    /\ vret' = NoneRet
    /\ vsol' = NoSol
    /\ vpc' = "done"
    /\ UNCHANGED << vin, vArea, vph, vtrial, vF, f_low, viter, vtried, vx0,
                    vx1, vexc, fvars, ovars >>

(***************************************************************************)
(* data_tables.py.  A Python str is modelled as the sequence of its         *)
(* characters, so that lower() and strip() are computed, letter by letter.  *)
(***************************************************************************)
UPPER == << "A", "B", "C", "D", "E", "F", "G", "H", "I", "J", "K", "L", "M",
            "N", "O", "P", "Q", "R", "S", "T", "U", "V", "W", "X", "Y", "Z",
            "Á", "É", "Í", "Ó", "Ú", "Ñ" >>
LOWER == << "a", "b", "c", "d", "e", "f", "g", "h", "i", "j", "k", "l", "m",
            "n", "o", "p", "q", "r", "s", "t", "u", "v", "w", "x", "y", "z",
            "á", "é", "í", "ó", "ú", "ñ" >>
WHITESPACE == { " ", "\t", "\n" }

LowerChar(c) ==
    IF \E i \in 1..Len(UPPER) : UPPER[i] = c
    THEN LOWER[CHOOSE i \in 1..Len(UPPER) : UPPER[i] = c]
    ELSE c
\* str.lower()
StrLower(s) == [i \in 1..Len(s) |-> LowerChar(s[i])]
\* str.upper(), for the spelling of inputs
UpperChar(c) ==
    IF \E i \in 1..Len(LOWER) : LOWER[i] = c
    THEN UPPER[CHOOSE i \in 1..Len(LOWER) : LOWER[i] = c]
    ELSE c
StrUpper(s) == [i \in 1..Len(s) |-> UpperChar(s[i])]
\* str.strip()
RECURSIVE LStrip(_)
LStrip(s) ==
    IF s # << >> /\ Head(s) \in WHITESPACE THEN LStrip(Tail(s)) ELSE s
RECURSIVE RStrip(_)
RStrip(s) ==
    IF s # << >> /\ s[Len(s)] \in WHITESPACE
    THEN RStrip(SubSeq(s, 1, Len(s) - 1)) ELSE s
StrStrip(s) == RStrip(LStrip(s))

\* dict.get(key, default) on a dict written as a sequence of << key, value >>
DictGet(dict, key, default) ==
    IF \E i \in 1..Len(dict) : dict[i][1] = key
    THEN dict[CHOOSE i \in 1..Len(dict) : dict[i][1] = key][2]
    ELSE default

\* three of the entries of MINOR_LOSS_COEFFICIENTS, keys as they are written
Boquilla == << "B", "o", "q", "u", "i", "l", "l", "a" >>
Confluencia == << "C", "o", "n", "f", "l", "u", "e", "n", "c", "i", "a" >>
TeeFlujoRecto == << "T", "e", "e", " ", "F", "l", "u", "j", "o", " ",
                    "R", "e", "c", "t", "o" >>
MINOR_LOSS_COEFFICIENTS ==
    << << TeeFlujoRecto, << 1, 10 >> >>,
       << Boquilla, << 11, 4 >> >>,
       << Confluencia, << 2, 5 >> >> >>

\* get_minor_loss_k
get_minor_loss_k(componente) ==
    DictGet(MINOR_LOSS_COEFFICIENTS, StrStrip(StrLower(componente)), Zero)

\* three of the entries of ROUGHNESS; the second one is the fallback
Madera == << "m", "a", "d", "e", "r", "a" >>
AceroComercial == << "a", "c", "e", "r", "o", " ", "c", "o", "m", "e", "r",
                     "c", "i", "a", "l", " ", "y", " ", "s", "o", "l", "d",
                     "a", "d", "o" >>
Fundicion == << "f", "u", "n", "d", "i", "c", "i", "ó", "n" >>
ROUGHNESS ==
    << << Madera, << 27, 50000 >> >>,
       << AceroComercial, << 3, 50000 >> >>,
       << Fundicion, << 9, 25000 >> >> >>

CONVERSION_M_TO_FT == << 82021, 25000 >>

\* get_roughness_by_material
get_roughness_by_material(material, system) ==
    LET material_lower == StrStrip(StrLower(material))
        epsilon_m == DictGet(ROUGHNESS, material_lower,
                             DictGet(ROUGHNESS, AceroComercial, Zero))
    IN  IF system = "SI" THEN epsilon_m
        ELSE RMul(epsilon_m, CONVERSION_M_TO_FT)

\* two of the entries of PIPE_DIAMETERS_M, keyed by << nominal, schedule >>
PIPE_DIAMETERS_M ==
    << << << Int2R(2), 40 >>, << 21, 400 >> >>,
       << << Int2R(4), 40 >>, << 1023, 10000 >> >> >>

\* get_pipe_diameter
get_pipe_diameter(nominal, schedule, system) ==
    LET key == << nominal, schedule >>
        found == \E i \in 1..Len(PIPE_DIAMETERS_M) : PIPE_DIAMETERS_M[i][1] = key
        diameter_m ==
            IF found THEN DictGet(PIPE_DIAMETERS_M, key, Zero)
            ELSE IF system = "SI" THEN nominal
            ELSE RDiv(nominal, CONVERSION_M_TO_FT)
    IN  IF system = "SI" THEN diameter_m
        ELSE RMul(diameter_m, CONVERSION_M_TO_FT)

(***************************************************************************)
(* The forward path and generate_hl_vs_v_data                              *)
(***************************************************************************)
\* the values colebrook_white_friction_factor can return for (Re, epsilon_D):
\* what the call of the state machine above ends with, for a caller that
\* takes the call as one step
ColebrookValues(Re, eps) ==
    CASE Regime(Re) = "invalid" -> { Zero }
      [] Regime(Re) = "laminar" -> { LaminarF(Re) }
      [] Regime(Re) = "turbulent" ->
             { r \in RootSet : RPos(r) } \cup { FGuess(Re, eps) }

\* Re, then (with f the value colebrook_white_friction_factor returned) hL,
\* delta_P and power: views.py lines 92-94 and 79-81
ForwardRun(in, f) ==
    LET Re == reynolds_number(in.V, in.D, in.nu)
        hL == total_head_loss(f, in.L, in.D, in.V, in.sum_K, in.g)
        delta_P == pressure_drop(in.rho, in.g, hL)
        power == pumping_power(in.Q, delta_P, in.system, in.eta)
    IN  [exc |-> power.exc, Re |-> Re, f |-> f, hL |-> hL,
         dP |-> delta_P, Power |-> power.val]

\* num points from start in steps of (stop - start) / num: stop is left out
LinSpace_NoEndpoint(start, stop, num) ==
    [i \in 1..num |->
        RAdd(start, RMul(Int2R(i - 1), RDiv(RSub(stop, start), Int2R(num))))]

\* np.linspace(start, stop, num) for num >= 1
LinSpace(start, stop, num) ==
    [i \in 1..num |->
        IF num = 1 THEN start
        ELSE IF i = num THEN stop
        ELSE RAdd(start,
                  RMul(Int2R(i - 1), RDiv(RSub(stop, start), Int2R(num - 1))))]

\* the loop of generate_hl_vs_v_data from sample i on: every list it can
\* build, one choice of f per sample
RECURSIVE ChartRows(_, _, _)
ChartRows(V_values, i, a) ==
    IF i > Len(V_values) THEN { << >> }
    ELSE LET V == V_values[i]
             Re == reynolds_number(V, a.D, a.nu)
             epsilon_D == IF ~RIsZero(a.D) THEN RDiv(a.eps, a.D) ELSE Zero
             rest == ChartRows(V_values, i + 1, a)
         IN  IF RNonPos(V) THEN rest
             ELSE { << << V, total_head_loss(f, a.L, a.D, V, a.sum_K, a.g) >> >>
                        \o r : f \in ColebrookValues(Re, epsilon_D), r \in rest }

\* generate_hl_vs_v_data: the results the call can have
generate_hl_vs_v_data(a) ==
    IF a.steps <= 0 THEN { [exc |-> "ValueError", data |-> << >>] }
    ELSE { [exc |-> "none", data |-> d] :
               d \in ChartRows(LinSpace(a.V_min, a.V_max, a.steps), 1, a) }

(***************************************************************************)
(* forms.py and views.py: calculate_fluid_flow                             *)
(***************************************************************************)
\* None, for the fields of the form that may be left empty
None == << 0, 0 >>
\* `x or 0`
OrZero(x) == IF x = None \/ x[1] = 0 THEN Zero ELSE x

\* the choices of the material field: the keys of ROUGHNESS
ROUGHNESS_CHOICES == { ROUGHNESS[i][1] : i \in 1..Len(ROUGHNESS) }

\* form.is_valid(): the validators of the fields, then clean()
FormValid(req) ==
    /\ req.system \in {"SI", "INGLES"}
    /\ req.variable_to_solve \in {"HL_DP_POWER", "V"}
    /\ req.rho # None /\ RLe(<< 1, 100 >>, req.rho)
    /\ req.mu # None /\ RLe(Zero, req.mu)
    /\ req.input_type \in {"V", "Q"}
    /\ req.velocity = None \/ RLe(Zero, req.velocity)
    /\ req.caudal = None \/ RLe(Zero, req.caudal)
    /\ req.length # None /\ RLe(<< 1, 100 >>, req.length)
    /\ req.nominal # None /\ RLe(<< 1, 1000 >>, req.nominal)
    /\ req.schedule >= 10
    /\ req.material \in ROUGHNESS_CHOICES
    /\ req.pump_efficiency # None
    /\ RLe(<< 1, 100 >>, req.pump_efficiency)
    /\ RLe(req.pump_efficiency, Int2R(1))
    /\ req.input_type = "V" => req.velocity # None /\ RPos(req.velocity)
    /\ req.input_type = "Q" => req.caudal # None /\ RPos(req.caudal)

\* lines 54-56: sum_K over the items of accessories_dict
RECURSIVE SumK(_)
SumK(items) ==
    IF items = << >> THEN Zero
    ELSE RAdd(RMul(get_minor_loss_k(StrLower(Head(items)[1])),
                   Int2R(Head(items)[2])),
              SumK(Tail(items)))

PrepFail(e) ==
    [exc |-> e, g |-> Zero, nu |-> Zero, sum_K |-> Zero, D |-> Zero,
     Area |-> Zero, epsilon |-> Zero, V |-> Zero, Q |-> Zero]

\* lines 38-70: the locals on reaching the dispatch, or the exception raised
\* on the way (V and Q are then still the 0.0 of lines 27-28)
ViewPrep(req) ==
    LET g == get_constants(req.system)
        nu == kinematic_viscosity(req.mu, req.rho)
        D == get_pipe_diameter(req.nominal, req.schedule, req.system)
        a == AreaOf(D)
        Area == a.val
        epsilon == get_roughness_by_material(req.material, req.system)
        V == IF req.input_type = "V" THEN OrZero(req.velocity)
             ELSE IF RPos(Area) THEN RDiv(OrZero(req.caudal), Area) ELSE Zero
        Q == IF req.input_type = "V" THEN RMul(V, Area)
             ELSE OrZero(req.caudal)
    IN  IF nu.exc # "none" THEN PrepFail(nu.exc)
        \* json.loads raises JSONDecodeError, a ValueError
        ELSE IF ~req.accessories.ok THEN PrepFail("ValueError")
        ELSE IF a.exc # "none" THEN PrepFail(a.exc)
        ELSE IF RNonPos(Area) THEN PrepFail("ValueError")
        ELSE [exc |-> "none", g |-> g, nu |-> nu.val,
              sum_K |-> SumK(req.accessories.items), D |-> D, Area |-> Area,
              epsilon |-> epsilon, V |-> V, Q |-> Q]

\* the arguments of line 74, with the default bounds of solve_velocity
V_MIN_DEFAULT == << 1, 1000 >>
V_MAX_DEFAULT == Int2R(20)
ViewSolveArgs(req, p) ==
    [P1 |-> OrZero(req.P1), P2 |-> OrZero(req.P2), z1 |-> OrZero(req.z1),
     z2 |-> OrZero(req.z2), L |-> req.length, D |-> p.D, rho |-> req.rho,
     nu |-> p.nu, sum_K |-> p.sum_K, g |-> p.g, eps |-> p.epsilon,
     V_min |-> V_MIN_DEFAULT, V_max |-> V_MAX_DEFAULT]

\* line 104
CHART_STEPS == 20
ViewChartArgs(req, p) ==
    [V_min |-> IF req.system = "SI" THEN << 1, 2 >> ELSE Int2R(1),
     V_max |-> IF req.system = "SI" THEN Int2R(5) ELSE Int2R(15),
     steps |-> CHART_STEPS, L |-> req.length, D |-> p.D, nu |-> p.nu,
     sum_K |-> p.sum_K, g |-> p.g, eps |-> p.epsilon]

\* `results`: None, the record of lines 83-87 and 96-100 (its values before
\* they are formatted), or one of the three error messages
NoResults ==
    [kind |-> "none", V |-> Zero, Q |-> Zero, HL |-> Zero, dP |-> Zero,
     Power |-> Zero, f |-> Zero, Re |-> Zero]
ErrorResults(kind) == [NoResults EXCEPT !.kind = kind]
\* lines 112-116: which except clause takes the exception
ViewCatch(e) == IF e = "ValueError" THEN "error_input" ELSE "error_internal"

\* lines 79-87 or 92-100, then lines 104-110, for the V and Q in hand: the
\* outcomes (results, chart) of the rest of the try block
ViewCompute(req, p, V, Q) ==
    LET Re == reynolds_number(V, p.D, p.nu)
        epsilon_D == RDiv(p.epsilon, p.D)
        in == [V |-> V, D |-> p.D, nu |-> p.nu, L |-> req.length,
               sum_K |-> p.sum_K, g |-> p.g, rho |-> req.rho, Q |-> Q,
               system |-> req.system, eta |-> req.pump_efficiency]
    IN  { LET run == ForwardRun(in, f)
          IN  IF run.exc # "none"
              THEN [results |-> ErrorResults(ViewCatch(run.exc)),
                    chart |-> << >>]
              ELSE IF c.exc # "none"
              THEN [results |-> ErrorResults(ViewCatch(c.exc)),
                    chart |-> << >>]
              ELSE [results |-> [kind |-> "record", V |-> V, Q |-> Q,
                                 HL |-> run.hL, dP |-> run.dP,
                                 Power |-> run.Power, f |-> run.f,
                                 Re |-> run.Re],
                    chart |-> c.data] :
          f \in ColebrookValues(Re, epsilon_D),
          c \in generate_hl_vs_v_data(ViewChartArgs(req, p)) }

\* lines 88-89, then lines 104-110
ViewNoSolution(req, p) ==
    { IF c.exc # "none"
      THEN [results |-> ErrorResults(ViewCatch(c.exc)), chart |-> << >>]
      ELSE [results |-> ErrorResults("error_noconv"), chart |-> c.data] :
      c \in generate_hl_vs_v_data(ViewChartArgs(req, p)) }

(***************************************************************************)
(* The engine called from outside: one call at a time                      *)
(***************************************************************************)
ReInputs == { Int2R(-5), Zero, << 1, 2 >>, Int2R(1000), << 3999, 2 >>,
              Int2R(2000), Int2R(200000) }
EpsInputs == { Zero, << 1, 20 >>, << 1, 2 >>, Int2R(1) }

\* the diameter whose square overflows
HugeD == Int2R(2 * FloatSqrtMax)

NoInput ==
    [P1 |-> Zero, P2 |-> Zero, z1 |-> Zero, z2 |-> Zero, L |-> Zero,
     D |-> Zero, rho |-> Zero, nu |-> Zero, sum_K |-> Zero, g |-> Zero,
     eps |-> Zero, V_min |-> Zero, V_max |-> Zero]

\* water in 100 m of pipe of 0.1 m under a head of 10 m, default bounds
BaseInput ==
    [P1 |-> Int2R(98100), P2 |-> Zero, z1 |-> Zero, z2 |-> Zero,
     L |-> Int2R(100), D |-> << 1, 10 >>, rho |-> Int2R(1000),
     nu |-> << 1, 1000000 >>, sum_K |-> Zero, g |-> G_SI,
     eps |-> << 1, 200 >>, V_min |-> << 1, 1000 >>, V_max |-> Int2R(20)]

SolveInputs ==
    { BaseInput,
      \* no density: (P1 - P2) / (rho * g) divides by zero
      [BaseInput EXCEPT !.rho = Zero],
      \* no diameter, with and without a head
      [BaseInput EXCEPT !.D = Zero],
      [BaseInput EXCEPT !.D = Zero, !.P1 = Zero],
      [BaseInput EXCEPT !.D = Zero, !.rho = Zero],
      \* a diameter whose square is no float
      [BaseInput EXCEPT !.D = HugeD],
      \* a viscous oil between narrow bounds, under a small head and under
      \* none; the same with both bounds below zero
      [BaseInput EXCEPT !.nu = << 1, 100 >>, !.L = Int2R(1),
                        !.V_min = Int2R(1), !.V_max = Int2R(2),
                        !.P1 = Int2R(125)],
      [BaseInput EXCEPT !.nu = << 1, 100 >>, !.L = Int2R(1),
                        !.V_min = Int2R(1), !.V_max = Int2R(2),
                        !.P1 = Zero],
      [BaseInput EXCEPT !.nu = << 1, 100 >>, !.L = Int2R(1),
                        !.V_min = << -21, 10 >>, !.V_max = Int2R(-2),
                        !.P1 = Zero] }

\* the round trip: hL is computed forward from a chosen V, and solve_velocity
\* is given the boundary with z1 = z2 = 0 and (P1 - P2) / (rho * g) = hL
RoundTripVs == { << 1, 2 >>, Int2R(2), Int2R(25) }
\* one unit of pipe with a viscous oil (every Re of the search below 2000) or
\* a fluid of no viscosity, with and without fittings
RoundTripPipes ==
    { [BaseInput EXCEPT !.L = Int2R(1), !.nu = nu, !.sum_K = K, !.P1 = Zero] :
          nu \in { << 1, 100 >>, Zero }, K \in { Zero, Int2R(2) } }
RoundTripInput(V, p, f) ==
    LET hL == total_head_loss(f, p.L, p.D, V, p.sum_K, p.g)
    IN  [p EXCEPT !.P1 = pressure_drop(p.rho, p.g, hL), !.P2 = Zero,
                  !.z1 = Zero, !.z2 = Zero]
RoundTripOf(V) ==
    UNION { { RoundTripInput(V, p, f) :
                f \in ColebrookValues(reynolds_number(V, p.D, p.nu),
                                      RDiv(p.eps, p.D)) } :
            p \in RoundTripPipes }
RoundTripInputs == UNION { RoundTripOf(V) : V \in RoundTripVs }
\* `in` is a boundary built from the forward head loss of V
IsRoundTripOf(V, in) ==
    /\ [in EXCEPT !.P1 = Zero] \in RoundTripPipes
    /\ in \in RoundTripOf(V)

\* no call in progress: the frame is empty
FEmpty ==
    /\ fpc = "idle"
    /\ fcaller = "direct"
    /\ fRe = Zero
    /\ fEps = Zero
    /\ f_guess = Zero
    /\ fx0 = Zero
    /\ fx1 = Zero
    /\ fiter = 0
    /\ fsol = NoSol
    /\ ftried = << >>
    /\ fret = Zero
    /\ fdiag = {}

FClear ==
    /\ fpc' = "idle"
    /\ fcaller' = "direct"
    /\ fRe' = Zero
    /\ fEps' = Zero
    /\ f_guess' = Zero
    /\ fx0' = Zero
    /\ fx1' = Zero
    /\ fiter' = 0
    /\ fsol' = NoSol
    /\ ftried' = << >>
    /\ fret' = Zero
    /\ fdiag' = {}

VEmpty ==
    /\ vpc = "idle"
    /\ vin = NoInput
    /\ vArea = Zero
    /\ vph = "ready"
    /\ vtrial = Zero
    /\ vF = Ok(Zero)
    /\ f_low = Zero
    /\ viter = 0
    /\ vsol = NoSol
    /\ vtried = << >>
    /\ vx0 = Zero
    /\ vx1 = Zero
    /\ vret = NoneRet
    /\ vexc = "none"
    /\ vdiag = {}

VClear ==
    /\ vpc' = "idle"
    /\ vin' = NoInput
    /\ vArea' = Zero
    /\ vph' = "ready"
    /\ vtrial' = Zero
    /\ vF' = Ok(Zero)
    /\ f_low' = Zero
    /\ viter' = 0
    /\ vsol' = NoSol
    /\ vtried' = << >>
    /\ vx0' = Zero
    /\ vx1' = Zero
    /\ vret' = NoneRet
    /\ vexc' = "none"
    /\ vdiag' = {}

KEmpty == kpc = "idle" /\ kin = << >> /\ kout = Zero
KClear == kpc' = "idle" /\ kin' = << >> /\ kout' = Zero

NoForwardInput ==
    [V |-> Zero, D |-> Zero, nu |-> Zero, L |-> Zero, sum_K |-> Zero,
     g |-> Zero, rho |-> Zero, Q |-> Zero, system |-> "SI", eta |-> Zero,
     epsilon_D |-> Zero]
NoForwardRun ==
    [exc |-> "none", Re |-> Zero, f |-> Zero, hL |-> Zero, dP |-> Zero,
     Power |-> Zero]
WEmpty == wpc = "idle" /\ win = NoForwardInput /\ wout = NoForwardRun
WClear == wpc' = "idle" /\ win' = NoForwardInput /\ wout' = NoForwardRun

NoChartArgs ==
    [V_min |-> Zero, V_max |-> Zero, steps |-> 0, L |-> Zero, D |-> Zero,
     nu |-> Zero, sum_K |-> Zero, g |-> Zero, eps |-> Zero]
NoChart == [exc |-> "none", data |-> << >>]
NoPrev == [args |-> NoChartArgs, out |-> NoChart]
CEmpty == cpc = "idle" /\ cin = NoChartArgs /\ cout = NoChart /\ cprev = NoPrev
CClear ==
    cpc' = "idle" /\ cin' = NoChartArgs /\ cout' = NoChart /\ cprev' = NoPrev

NoRequest ==
    [method |-> "GET", system |-> "SI", variable_to_solve |-> "HL_DP_POWER",
     rho |-> None, mu |-> None, input_type |-> "V", velocity |-> None,
     caudal |-> None, length |-> None, nominal |-> None, schedule |-> 0,
     material |-> << >>, pump_efficiency |-> None, P1 |-> None, P2 |-> None,
     z1 |-> None, z2 |-> None, accessories |-> [ok |-> TRUE, items |-> << >>]]
HEmpty ==
    /\ hpc = "idle"
    /\ hreq = NoRequest
    /\ hV = Zero
    /\ hQ = Zero
    /\ hArea = Zero
    /\ hresults = NoResults
    /\ hchart = << >>
HClear ==
    /\ hpc' = "idle"
    /\ hreq' = NoRequest
    /\ hV' = Zero
    /\ hQ' = Zero
    /\ hArea' = Zero
    /\ hresults' = NoResults
    /\ hchart' = << >>

Threads == {1, 2}
TEmpty ==
    /\ tpc = [t \in Threads |-> "idle"]
    /\ tcase = [t \in Threads |-> "quiet"]
    /\ tprod = [t \in Threads |-> {}]
    /\ tobs = [t \in Threads |-> {}]
    /\ registry = {}
    /\ stderr = << >>

\* nothing is in progress anywhere
Quiet == FIdle /\ VIdle /\ kpc = "idle" /\ wpc = "idle" /\ cpc = "idle"
             /\ hpc = "idle"

\* a caller outside the engine calls colebrook_white_friction_factor
DirectCall ==
    /\ Quiet
    /\ \E Re \in ReInputs, eps \in EpsInputs : CF_Enter(Re, eps, "direct")
    /\ UNCHANGED << vvars, ovars >>

\* the result of a direct call is taken by the caller: the frame is gone
CF_Return ==
    /\ fpc = "done"
    /\ fcaller = "direct"
    /\ FClear
    /\ UNCHANGED << vvars, ovars >>

\* a caller outside the engine calls solve_velocity
SolveCall ==
    /\ Quiet
    /\ \E in \in SolveInputs : SV_Call(in)
    /\ UNCHANGED ovars

\* solve_velocity is called on the boundary built from a forward head loss
RoundTripCall ==
    /\ Quiet
    /\ \E in \in RoundTripInputs : SV_Call(in)
    /\ UNCHANGED ovars

\* the result of solve_velocity is taken by that caller
SV_ReturnToCaller ==
    /\ vpc = "done"
    /\ hpc = "idle"
    /\ VClear
    /\ FClear
    /\ UNCHANGED ovars

\* spellings of accessory names
Pad(s) == << " " >> \o s \o << " ", "\t" >>
KNames ==
    { Boquilla, StrLower(Boquilla), StrUpper(Boquilla), Pad(Boquilla),
      Confluencia, StrLower(Confluencia), Pad(StrLower(Confluencia)),
      TeeFlujoRecto, StrLower(TeeFlujoRecto), StrUpper(TeeFlujoRecto),
      << "x", "y", "z" >>, << "B", "o", "q" >>, << >> }

\* a caller calls get_minor_loss_k
LookupCall ==
    /\ Quiet
    /\ \E n \in KNames :
          /\ kin' = n
          /\ kout' = get_minor_loss_k(n)
    /\ kpc' = "done"
    /\ UNCHANGED << fvars, vvars, wvars, cvars, hvars, tvars >>

LookupReturn ==
    /\ kpc = "done"
    /\ KClear
    /\ UNCHANGED << fvars, vvars, wvars, cvars, hvars, tvars >>

ForwardInputs ==
    [V : { Int2R(-1), Zero, Int2R(2) },
     D : { << -1, 10 >>, Zero, << 1, 10 >> },
     nu : { Zero, << 1, 100 >> },
     g : { Zero, G_SI, G_INGLES },
     sum_K : { Zero, Int2R(2) },
     eta : { << -1, 2 >>, Zero, << 1, 2 >>, Int2R(1) },
     system : { "SI", "INGLES" },
     Q : { Zero, << 1, 100 >> },
     rho : { Int2R(1000) },
     L : { Int2R(100) },
     epsilon_D : { << 1, 20 >> }]

\* a caller runs the forward path on its inputs
ForwardCall ==
    /\ Quiet
    /\ \E in \in ForwardInputs :
          \E f \in ColebrookValues(reynolds_number(in.V, in.D, in.nu),
                                   in.epsilon_D) :
             /\ win' = in
             /\ wout' = ForwardRun(in, f)
    /\ wpc' = "done"
    /\ UNCHANGED << fvars, vvars, kvars, cvars, hvars, tvars >>

ForwardReturn ==
    /\ wpc = "done"
    /\ WClear
    /\ UNCHANGED << fvars, vvars, kvars, cvars, hvars, tvars >>

\* oil in 100 m of pipe, with and without a diameter
ChartInputs ==
    [V_min : { Int2R(-1), Zero, << 1, 2 >>, Int2R(1) },
     V_max : { Int2R(5), Int2R(15) },
     steps : { -1, 0, 1, 2, 3, CHART_STEPS },
     L : { Int2R(100) },
     D : { Zero, << 1, 10 >> },
     nu : { << 1, 100 >> },
     sum_K : { Int2R(2) },
     g : { G_SI },
     eps : { << 1, 200 >> }]

\* a caller calls generate_hl_vs_v_data, a first time or once more
ChartCall ==
    /\ FIdle /\ VIdle /\ kpc = "idle" /\ wpc = "idle" /\ hpc = "idle"
    /\ cprev = NoPrev
    /\ \E a \in ChartInputs :
          \E r \in generate_hl_vs_v_data(a) :
             /\ cin' = a
             /\ cout' = r
    /\ cprev' = IF cpc = "done" THEN [args |-> cin, out |-> cout] ELSE NoPrev
    /\ cpc' = "done"
    /\ UNCHANGED << fvars, vvars, kvars, wvars, hvars, tvars >>

ChartReturn ==
    /\ cpc = "done"
    /\ CClear
    /\ UNCHANGED << fvars, vvars, kvars, wvars, hvars, tvars >>

\* a POST of the form: oil through 100 m of pipe of 0.1 m, the velocity given
BaseRequest ==
    [method |-> "POST", system |-> "SI", variable_to_solve |-> "HL_DP_POWER",
     rho |-> Int2R(1000), mu |-> Int2R(10), input_type |-> "V",
     velocity |-> Int2R(2), caudal |-> None, length |-> Int2R(100),
     nominal |-> << 1, 10 >>, schedule |-> 40, material |-> Madera,
     pump_efficiency |-> << 3, 4 >>, P1 |-> Int2R(98100), P2 |-> None,
     z1 |-> None, z2 |-> None,
     accessories |-> [ok |-> TRUE, items |-> << << Boquilla, 2 >> >>]]

ViewRequests ==
    { BaseRequest,
      [BaseRequest EXCEPT !.method = "GET"],
      \* the flow rate given
      [BaseRequest EXCEPT !.input_type = "Q", !.velocity = None,
                          !.caudal = << 1, 100 >>],
      \* neither given
      [BaseRequest EXCEPT !.velocity = None],
      \* a pipe of the table; no viscosity; the Imperial system
      [BaseRequest EXCEPT !.nominal = Int2R(2), !.length = Int2R(1),
                          !.mu = Int2R(1)],
      [BaseRequest EXCEPT !.mu = Zero],
      [BaseRequest EXCEPT !.system = "INGLES", !.nominal = << 1, 2 >>,
                          !.material = Fundicion],
      \* no efficiency
      [BaseRequest EXCEPT !.pump_efficiency = Zero],
      [BaseRequest EXCEPT !.pump_efficiency = << -1, 2 >>],
      \* accessories_json that is no JSON
      [BaseRequest EXCEPT !.accessories = [ok |-> FALSE, items |-> << >>]],
      \* solve for the velocity, with and without a head
      [BaseRequest EXCEPT !.variable_to_solve = "V"],
      [BaseRequest EXCEPT !.variable_to_solve = "V", !.input_type = "Q",
                          !.velocity = None, !.caudal = << 1, 100 >>,
                          !.P1 = None],
      [BaseRequest EXCEPT !.variable_to_solve = "V", !.system = "INGLES",
                          !.nominal = << 1, 2 >>] }

\* calculate_fluid_flow up to its return, or up to its call of solve_velocity
View_Request ==
    /\ Quiet
    /\ \E req \in ViewRequests :
          /\ hreq' = req
          /\ IF req.method # "POST" \/ ~FormValid(req)
             THEN /\ hpc' = "done"
                  /\ hV' = Zero /\ hQ' = Zero /\ hArea' = Zero
                  /\ hresults' = NoResults
                  /\ hchart' = << >>
                  /\ UNCHANGED << fvars, vvars >>
             ELSE LET p == ViewPrep(req)
                  IN  /\ hV' = p.V /\ hQ' = p.Q /\ hArea' = p.Area
                      /\ IF p.exc # "none"
                         THEN /\ hpc' = "done"
                              /\ hresults' = ErrorResults(ViewCatch(p.exc))
                              /\ hchart' = << >>
                              /\ UNCHANGED << fvars, vvars >>
                         ELSE IF req.variable_to_solve = "V"
                         THEN /\ SV_Call(ViewSolveArgs(req, p))
                              /\ hpc' = "solving"
                              /\ hresults' = NoResults
                              /\ hchart' = << >>
                         ELSE /\ \E o \in ViewCompute(req, p, p.V, p.Q) :
                                    /\ hresults' = o.results
                                    /\ hchart' = o.chart
                              /\ hpc' = "done"
                              /\ UNCHANGED << fvars, vvars >>
    /\ UNCHANGED << kvars, wvars, cvars, tvars >>

\* solve_velocity has come back to line 74: the rest of the try block
View_Solved ==
    /\ hpc = "solving"
    /\ vpc = "done"
    /\ LET p == ViewPrep(hreq)
       IN  IF vexc # "none"
           THEN /\ hresults' = ErrorResults(ViewCatch(vexc))
                /\ hchart' = << >>
                /\ UNCHANGED << hV, hQ >>
           ELSE IF vret.ok
           THEN /\ hV' = vret.V
                /\ hQ' = vret.Q
                /\ \E o \in ViewCompute(hreq, p, vret.V, vret.Q) :
                      /\ hresults' = o.results
                      /\ hchart' = o.chart
           ELSE /\ \E o \in ViewNoSolution(hreq, p) :
                      /\ hresults' = o.results
                      /\ hchart' = o.chart
                /\ UNCHANGED << hV, hQ >>
    /\ hpc' = "done"
    /\ VClear
    /\ FClear
    /\ UNCHANGED << hreq, hArea, kvars, wvars, cvars, tvars >>

\* the response is rendered and the request is over
View_Respond ==
    /\ hpc = "done"
    /\ HClear
    /\ UNCHANGED << fvars, vvars, kvars, wvars, cvars, tvars >>

Init ==
    /\ FEmpty
    /\ VEmpty
    /\ KEmpty
    /\ WEmpty
    /\ CEmpty
    /\ HEmpty
    /\ TEmpty

Next ==
    \/ DirectCall
    \/ CF_Guess
    \/ CF_Bracket
    \/ CF_Iter
    \/ CF_Finish
    \/ CF_LibRaise
    \/ CF_Check
    \/ CF_SecantSeed
    \/ CF_NewtonStart
    \/ CF_Fallback
    \/ CF_Return
    \/ SolveCall
    \/ RoundTripCall
    \/ SV_EvalBegin
    \/ SV_EvalEnd
    \/ SV_S1Low
    \/ SV_S1High
    \/ SV_Iter
    \/ SV_Finish
    \/ SV_LibRaise
    \/ SV_Check
    \/ SV_S2Seed
    \/ SV_S3Start
    \/ SV_NoSolution
    \/ SV_ReturnToCaller
    \/ LookupCall
    \/ LookupReturn
    \/ ForwardCall
    \/ ForwardReturn
    \/ ChartCall
    \/ ChartReturn
    \/ View_Request
    \/ View_Solved
    \/ View_Respond

Spec == Init /\ [][Next]_vars

(***************************************************************************)
(* Two request threads and the warnings module of the process.  A thread   *)
(* makes calls of the engine; a call that has a diagnostic to give calls   *)
(* warnings.warn and then returns its float.  warnings.warn, under the     *)
(* default filter, looks the warning up in the registry of the module,     *)
(* which the threads share: a warning not yet there is entered and written *)
(* to stderr, one already there is dropped.                                *)
(***************************************************************************)
\* line 48, line 98, line 230
Diagnostics == { "invalid_Re", "no_convergence", "velocity_unsolved" }

\* thread t enters a call that will, or will not, have a diagnostic to give
T_Call(t) ==
    /\ tpc[t] = "idle"
    /\ \E k \in Diagnostics \cup { "quiet" } :
          /\ tcase' = [tcase EXCEPT ![t] = k]
          /\ tpc' = [tpc EXCEPT ![t] = IF k = "quiet" THEN "return" ELSE "warn"]
    /\ tprod' = [tprod EXCEPT ![t] = {}]
    /\ tobs' = [tobs EXCEPT ![t] = {}]
    /\ UNCHANGED << registry, stderr >>
    /\ UNCHANGED << fvars, vvars, kvars, wvars, cvars, hvars >>

\* warnings.warn(...)
T_Warn(t) ==
    /\ tpc[t] = "warn"
    /\ tprod' = [tprod EXCEPT ![t] = {tcase[t]}]
    /\ IF tcase[t] \in registry
       THEN UNCHANGED << registry, stderr >>
       ELSE /\ registry' = registry \cup {tcase[t]}
            /\ stderr' = Append(stderr, tcase[t])
    /\ tpc' = [tpc EXCEPT ![t] = "return"]
    /\ UNCHANGED << tcase, tobs >>
    /\ UNCHANGED << fvars, vvars, kvars, wvars, cvars, hvars >>

\* `return 0.0`, `return float(f_guess)`, `return None, None`: what comes
\* back to the caller is the value, and no diagnostic with it
T_Return(t) ==
    /\ tpc[t] = "return"
    /\ tobs' = [tobs EXCEPT ![t] = {}]
    /\ tpc' = [tpc EXCEPT ![t] = "done"]
    /\ UNCHANGED << tcase, tprod, registry, stderr >>
    /\ UNCHANGED << fvars, vvars, kvars, wvars, cvars, hvars >>

\* the caller goes on to its next call
T_Done(t) ==
    /\ tpc[t] = "done"
    /\ tpc' = [tpc EXCEPT ![t] = "idle"]
    /\ UNCHANGED << tcase, tprod, tobs, registry, stderr >>
    /\ UNCHANGED << fvars, vvars, kvars, wvars, cvars, hvars >>

NextWarn ==
    \E t \in Threads :
        \/ T_Call(t)
        \/ T_Warn(t)
        \/ T_Return(t)
        \/ T_Done(t)

SpecWarn == Init /\ [][NextWarn]_vars

(***************************************************************************)
(* Properties of the solvers                                               *)
(***************************************************************************)
ChainOrder == << "bracket", "secant", "newton", "fallback" >>
IsPrefix(p, q) == Len(p) <= Len(q) /\ \A i \in 1..Len(p) : p[i] = q[i]
FTurbulent == fRe[1] >= 2000 * fRe[2]
\* the test of the code on a returned sol, written out
SolGood(sol) == sol.conv /\ sol.root[1] > 0

C1_State ==
    /\ fpc # "idle" => IsPrefix(ftried, ChainOrder)
    /\ fpc \in {"brentq", "brentq_check"} => ftried = << "bracket" >>
    /\ fpc \in {"secant", "secant_check"} => ftried = << "bracket", "secant" >>
    /\ fpc \in {"newton", "newton_check"} =>
           ftried = << "bracket", "secant", "newton" >>
    /\ (fpc = "done" /\ FTurbulent) =>
           /\ ftried # << >>
           /\ ("no_convergence" \in fdiag) <=> (ftried = ChainOrder)
           /\ ftried = ChainOrder => fret = f_guess
           /\ ftried # ChainOrder => SolGood(fsol) /\ fret = fsol.root

C1_Step ==
    \* the next strategy is taken up only out of a failure of the one before:
    \* skipped (no sign change), raised, not converged, or a root <= 0
    /\ (fpc' = "secant_seed" /\ fpc # "secant_seed") =>
           \/ fpc = "bracket" /\ SignAtLow(fRe, fEps) = SignAtHigh(fRe, fEps)
           \/ fpc = "brentq"
           \/ fpc = "brentq_check" /\ ~SolGood(fsol)
    /\ (fpc' = "newton_start" /\ fpc # "newton_start") =>
           \/ fpc = "secant"
           \/ fpc = "secant_check" /\ ~SolGood(fsol)
    /\ (fpc' = "fallback" /\ fpc # "fallback") =>
           \/ fpc = "newton"
           \/ fpc = "newton_check" /\ ~SolGood(fsol)
    \* a convergent positive root ends the call with that root
    /\ (fpc \in FCheckPcs /\ SolGood(fsol) /\ fpc' # fpc) =>
           fpc' = "done" /\ fret' = fsol.root /\ ftried' = ftried
    \* a failed strategy hands over to the next one, the last to the fallback
    /\ (fpc = "brentq_check" /\ ~SolGood(fsol) /\ fpc' # fpc) =>
           fpc' = "secant_seed"
    /\ (fpc = "secant_check" /\ ~SolGood(fsol) /\ fpc' # fpc) =>
           fpc' = "newton_start"
    /\ (fpc = "newton_check" /\ ~SolGood(fsol) /\ fpc' # fpc) =>
           fpc' = "fallback"
    \* a returned call runs no further strategy
    /\ fpc = "done" => fpc' \in {"done", "idle"} \/ ftried' = << >>

\* C1: for Re >= 2000 the strategies of colebrook_white_friction_factor are
\* attempted in the order bracket search, secant, Newton, terminal fallback;
\* a strategy is attempted only after every earlier one was skipped, raised,
\* did not converge or gave a root <= 0; the first convergent root > 0 is the
\* returned f and ends the call; the fallback (f_guess with the
\* non-convergence diagnostic) is reached exactly when all three failed.
Thm_C1 == [] C1_State /\ [][C1_Step]_vars

\* Newton succeeded after the bracket search and the secant search failed
Wit_C1 ==
    /\ fpc = "done"
    /\ ftried = << "bracket", "secant", "newton" >>
    /\ fsol.conv
    /\ fret = fsol.root
    /\ fret[1] > 0

Cex_C2 ==
    /\ vexc = "none"
    /\ (vpc = "done" /\ "velocity_unsolved" \in vdiag) => vret = NoneRet


\* a measure of the work a call still has ahead of it
FStage(pc) ==
    CASE pc = "guess" -> 11
      [] pc = "bracket" -> 10
      [] pc = "brentq" -> 9
      [] pc = "brentq_check" -> 8
      [] pc = "secant_seed" -> 7
      [] pc = "secant" -> 6
      [] pc = "secant_check" -> 5
      [] pc = "newton_start" -> 4
      [] pc = "newton" -> 3
      [] pc = "newton_check" -> 2
      [] pc = "fallback" -> 1
      [] OTHER -> 0
FRank ==
    FStage(fpc) * (MAXITER + 1)
        + (IF fpc \in FIterPcs THEN MAXITER - fiter ELSE 0)
FRankMax == 12 * (MAXITER + 1)
VStage(pc) ==
    CASE pc = "s1_low" -> 11
      [] pc = "s1_high" -> 10
      [] pc = "s1_iter" -> 9
      [] pc = "s1_check" -> 8
      [] pc = "s2_seed" -> 7
      [] pc = "s2_iter" -> 6
      [] pc = "s2_check" -> 5
      [] pc = "s3_start" -> 4
      [] pc = "s3_iter" -> 3
      [] pc = "s3_check" -> 2
      [] pc = "no_solution" -> 1
      [] OTHER -> 0
VPhase == CASE vph = "ready" -> 2 [] vph = "wait" -> 1 [] OTHER -> 0
VRank ==
    (VStage(vpc) * (MAXITER + 1)
        + (IF vpc \in VIterPcs THEN MAXITER - viter ELSE 0)) * 3 + VPhase
Rank == VRank * FRankMax + FRank

\* a call is in progress and has not returned
Running == fpc \notin {"idle", "done"} \/ vpc \notin {"idle", "done"}

\* the call in progress has a next step to take
FCanStep ==
    \/ fpc \in {"guess", "bracket", "secant_seed", "newton_start", "fallback"}
    \/ fpc \in FCheckPcs
    \/ fpc \in FIterPcs /\ (fiter < MAXITER \/ fiter >= 1)
VCanStep ==
    \/ vpc \in VEvalPcs /\ vph = "have"
    \/ vpc \in {"s1_low", "s1_high"} /\ vph = "ready"
    \/ vpc \in VIterPcs /\ vph = "ready" /\ (viter < MAXITER \/ viter >= 1)
    \/ vpc \in VEvalPcs /\ vph = "wait" /\ fcaller = "F"
           /\ (fpc = "done" \/ FCanStep)
    \/ vpc \in VCheckPcs \cup {"s2_seed", "s3_start", "no_solution"}
CanStep ==
    IF vpc \in {"idle", "done"} THEN fcaller = "direct" /\ FCanStep
    ELSE VCanStep

C10_State ==
    /\ fiter \in 0..MAXITER
    /\ viter \in 0..MAXITER
    /\ Len(ftried) <= 4
    /\ Len(vtried) <= 3
    /\ Rank >= 0
    /\ Running => CanStep
    \* once the strategies of solve_velocity are under way the call ends with
    \* (V, Q) or with (None, None)
    /\ (vpc = "done" /\ vtried # << >>) =>
           /\ vexc = "none"
           /\ vret.ok \/ (vret = NoneRet /\ "velocity_unsolved" \in vdiag)

NormalName(name) == StrStrip(StrLower(name))
ClaimedK(name) ==
    IF \E i \in 1..Len(MINOR_LOSS_COEFFICIENTS) :
           NormalName(MINOR_LOSS_COEFFICIENTS[i][1]) = NormalName(name)
    THEN MINOR_LOSS_COEFFICIENTS[
             CHOOSE i \in 1..Len(MINOR_LOSS_COEFFICIENTS) :
                 NormalName(MINOR_LOSS_COEFFICIENTS[i][1]) = NormalName(name)][2]
    ELSE Zero

\* C4 as stated: get_minor_loss_k returns, for every spelling (case, leading
\* and trailing whitespace) of a name of the table, the coefficient of that
\* name, and 0.0 for a name that matches none
Cex_C4 == kpc = "done" => kout = ClaimedK(kin)

\* C5 as stated: the diagnostics a call produces come back to its caller with
\* the result: every caller observes exactly the diagnostics of its own call,
\* on every call that produces one
Cex_C5 == \A t \in Threads : tpc[t] = "done" => tobs[t] = tprod[t]

\* C6: pumping_power raises the input-domain error for every efficiency <= 0,
\* in either unit system, with no power value computed, and raises nothing
\* for an efficiency > 0; a request with such an efficiency ends with an
\* error reported and no result record (and no chart), and so does the try
\* block of the handler whenever its call of pumping_power is given one.
Thm_C6 ==
    /\ wpc = "done" =>
           /\ RNonPos(win.eta) <=> wout.exc = "ValueError"
           /\ RNonPos(win.eta) => wout.Power = Zero
           /\ RPos(win.eta) => wout.exc = "none"
    /\ (hpc = "done" /\ hreq.method = "POST"
            /\ RNonPos(hreq.pump_efficiency)) =>
           /\ hresults.kind # "record"
           /\ hresults.kind = "error_input" \/ ~FormValid(hreq)
           /\ hchart = << >>
    /\ (hpc = "done" /\ hresults.kind = "record") =>
           \A eta \in { Zero, << -1, 2 >> } :
               LET req == [hreq EXCEPT !.pump_efficiency = eta]
                   p == ViewPrep(req)
               IN  \A o \in ViewCompute(req, p, hV, hQ) :
                       /\ o.results = ErrorResults("error_input")
                       /\ o.chart = << >>

\* pumping_power has raised for an efficiency of zero in the Imperial system
Wit_C6 ==
    /\ wpc = "done"
    /\ win.eta = Zero
    /\ win.system = "INGLES"
    /\ win.Q # Zero
    /\ wout.exc = "ValueError"

Degenerate(in) ==
    RNonPos(in.V) \/ RNonPos(in.D) \/ RNonPos(in.nu) \/ RNonPos(in.g)
DegenerateCount(in) ==
    (IF RNonPos(in.V) THEN 1 ELSE 0) + (IF RNonPos(in.D) THEN 1 ELSE 0)
        + (IF RNonPos(in.nu) THEN 1 ELSE 0) + (IF RNonPos(in.g) THEN 1 ELSE 0)
AllZero(out) ==
    /\ out.Re = Zero
    /\ out.f = Zero
    /\ out.hL = Zero
    /\ out.dP = Zero
    /\ out.Power = Zero

\* C7 as stated: with an efficiency > 0, a single degenerate input (V <= 0,
\* D <= 0, nu <= 0 or g <= 0) raises nothing and gives Re = f = hL = dP =
\* Power = 0, whatever the other inputs
Cex_C7 ==
    (wpc = "done" /\ RPos(win.eta) /\ DegenerateCount(win) = 1) =>
        wout.exc = "none" /\ AllZero(wout)

\* C7, amended: with an efficiency > 0, degenerate inputs raise nothing;
\* V <= 0, D <= 0 or nu <= 0 give Re = 0 and f = 0; D <= 0, g <= 0 or V = 0
\* give hL = dP = Power = 0; with D > 0 and g > 0, a V < 0 or a nu <= 0 leaves
\* the minor losses: hL = sum_K * V^2 / (2g), dP = rho * g * hL, and Power is
\* zero only if Q or hL is.
Thm_C7 ==
    (wpc = "done" /\ RPos(win.eta) /\ Degenerate(win)) =>
        /\ wout.exc = "none"
        /\ (RNonPos(win.V) \/ RNonPos(win.D) \/ RNonPos(win.nu)) =>
               wout.Re = Zero /\ wout.f = Zero
        /\ (RNonPos(win.D) \/ RNonPos(win.g) \/ RIsZero(win.V)) =>
               wout.hL = Zero /\ wout.dP = Zero /\ wout.Power = Zero
        /\ (RPos(win.D) /\ RPos(win.g)
                /\ (RNonPos(win.V) \/ RNonPos(win.nu))) =>
               /\ RMul(RMul(Int2R(2), win.g), wout.hL)
                      = RMul(win.sum_K, RMul(win.V, win.V))
               /\ wout.dP = RMul(win.rho, RMul(win.g, wout.hL))
               /\ RIsZero(wout.Power) <=>
                      (RIsZero(win.Q) \/ RIsZero(wout.hL))

\* a fluid with no viscosity flows through fittings: Re and f are zero, the
\* head loss and the power are not
Wit_C7 ==
    /\ wpc = "done"
    /\ RPos(win.eta)
    /\ DegenerateCount(win) = 1
    /\ RIsZero(win.nu)
    /\ wout.Re = Zero
    /\ wout.f = Zero
    /\ RPos(wout.hL)
    /\ RPos(wout.Power)

\* C8: Q = V * pi * D^2 / 4 wherever the pair (V, Q) is produced:
\* solve_velocity, on success, returns V > 0 and Q = V * Area from whichever
\* strategy found the root; the handler holds Q = V * Area for a velocity
\* given, for a flow rate given (V = Q / Area), and after it has replaced both
\* by the solved values, which are the ones it reports.
Thm_C8 ==
    /\ (vpc = "done" /\ vret.ok) =>
           /\ RPos(vret.V)
           /\ RMul(Int2R(4), vret.Q)
                  = RMul(RMul(PI, vret.V), RMul(vin.D, vin.D))
    /\ hpc # "idle" =>
           LET D == get_pipe_diameter(hreq.nominal, hreq.schedule, hreq.system)
           IN  \/ hV = Zero /\ hQ = Zero
               \/ RMul(Int2R(4), hQ) = RMul(RMul(PI, hV), RMul(D, D))
    /\ (hpc # "idle" /\ hreq.method = "POST" /\ FormValid(hreq)
            /\ hreq.accessories.ok) =>
           /\ hreq.input_type = "V" /\ hresults.kind # "record" =>
                  hV = hreq.velocity
           /\ hreq.input_type = "Q" /\ hresults.kind # "record" =>
                  hQ = hreq.caudal
    /\ (hpc = "done" /\ hresults.kind = "record") =>
           /\ hresults.V = hV
           /\ hresults.Q = hQ
           /\ RPos(hV)
           /\ RPos(hQ)

\* the handler, given a flow rate, has solved for the velocity and reports
\* the solved pair
Wit_C8 ==
    /\ hpc = "done"
    /\ hreq.variable_to_solve = "V"
    /\ hreq.input_type = "Q"
    /\ hresults.kind = "record"
    /\ hV = Int2R(2)
    /\ hQ = << 71, 4520 >>

\* the uniform partition of [a, b] into n points
Partition(a, b, n) ==
    [i \in 1..n |->
        IF n = 1 THEN a
        ELSE RDiv(RAdd(RMul(a, Int2R(n - i)), RMul(b, Int2R(i - 1))),
                  Int2R(n - 1))]
IsPositive(v) == RPos(v)
SampleVs(data) == [i \in 1..Len(data) |-> data[i][1]]

WithinTol(a, b) ==
    LET d == RSub(a, b)
    IN  RLe(IF RLt(d, Zero) THEN RNeg(d) ELSE d,
            RMul(<< 1, 1000 >>, IF RLt(b, Zero) THEN RNeg(b) ELSE b))
\* V lies strictly inside the search bounds
InBounds(V, in) == RLt(in.V_min, V) /\ RLt(V, in.V_max)
\* the head loss grows with V: there is friction or there are fittings
HasLosses(in) == RPos(in.nu) \/ RPos(in.sum_K)

C11_State ==
    vpc # "idle" =>
        \A V \in RoundTripVs :
            IsRoundTripOf(V, vin) =>
                /\ vexc = "none"
                /\ (InBounds(V, vin) /\ HasLosses(vin)) =>
                       /\ (vpc = "s1_check" /\ vsol.conv) =>
                              WithinTol(vsol.root, V)
                       /\ (vpc = "done" /\ vtried = << "bracket" >>) =>
                              /\ vret.ok
                              /\ WithinTol(vret.V, V)
                              /\ vret.Q = RMul(vret.V, vArea)
                /\ (~InBounds(V, vin) \/ ~HasLosses(vin)) =>
                       vpc \notin {"s1_iter", "s1_check"}
                /\ ~HasLosses(vin) =>
                       \A W \in RoundTripVs : IsRoundTripOf(W, vin)
C11_Step ==
    (vpc = "s1_high" /\ vpc' # "s1_high") =>
        \A V \in RoundTripVs :
            (IsRoundTripOf(V, vin) /\ InBounds(V, vin) /\ HasLosses(vin)) =>
                vpc' = "s1_iter"

VSeeded == vpc # "idle" /\ Len(vtried) >= 2 /\ RLt(vin.V_min, vin.V_max)
VWithin(x, in) == RLe(in.V_min, x) /\ RLe(x, in.V_max)
\* V_est is the midpoint of the bounds: the head is not positive, or
\* computing it raised
VEstIsMid(in) == DeltaZP(in).exc # "none" \/ RNonPos(DeltaZP(in).val)

\* C12 as stated: whatever the head and the bounds V_min < V_max, both
\* secant seeds of solve_velocity lie within [V_min, V_max]
Cex_C12 == VSeeded => VWithin(vx0, vin) /\ VWithin(vx1, vin)

\* C12, amended: x0 = max(V_min, 0.5 * V_est) is clamped from below only and
\* x1 = min(V_max, 1.5 * V_est) from above only: V_min <= x0 and
\* x1 <= V_max always; x0 <= V_max exactly when 0.5 * V_est <= V_max, and
\* V_min <= x1 exactly when V_min <= 1.5 * V_est; with the midpoint estimate
\* and V_max >= 0 both seeds are within the bounds.
Thm_C12 ==
    VSeeded =>
        LET est == VEst(vin)
        IN  /\ vx0 = RMax(vin.V_min, RMul(est, << 1, 2 >>))
            /\ vx1 = RMin(vin.V_max, RMul(est, << 3, 2 >>))
            /\ RLe(vin.V_min, vx0)
            /\ RLe(vx1, vin.V_max)
            /\ RLe(vx0, vin.V_max) <=> RLe(RMul(est, << 1, 2 >>), vin.V_max)
            /\ RLe(vin.V_min, vx1) <=> RLe(vin.V_min, RMul(est, << 3, 2 >>))
            /\ (VEstIsMid(vin) /\ ~RLt(vin.V_max, Zero)) =>
                   VWithin(vx0, vin) /\ VWithin(vx1, vin)

\* under the default bounds a large head has put the first seed above V_max
Wit_C12 ==
    /\ vpc = "s2_iter"
    /\ vin.V_min = << 1, 1000 >>
    /\ vin.V_max = Int2R(20)
    /\ RLt(vin.V_max, vx0)
    /\ vx1 = vin.V_max

\* the secant search of colebrook_white_friction_factor has its seeds
FSeeded == fpc # "idle" /\ Len(ftried) >= 2
InBracket(x) == RLe(BRACKET_LOW, x) /\ RLe(x, BRACKET_HIGH)

\* C13 as stated: for every f_guess both secant seeds of
\* colebrook_white_friction_factor lie within the bracket [1e-6, 0.1]
Cex_C13 == FSeeded => InBracket(fx0) /\ InBracket(fx1)

\* C13, amended: x0 = max(1e-6, 0.8 * f_guess) is at least 1e-6 and
\* x1 = min(0.5, 1.2 * f_guess) is at most 0.5, which is not the upper end
\* 0.1 of the bracket; x0 <= 0.1 exactly when 0.8 * f_guess <= 0.1, and x1
\* lies within [1e-6, 0.1] exactly when 1.2 * f_guess does, so both seeds lie
\* within the bracket exactly when 1e-6 <= 1.2 * f_guess <= 0.1.
Thm_C13 ==
    FSeeded =>
        LET lo == RMul(f_guess, << 4, 5 >>)
            hi == RMul(f_guess, << 6, 5 >>)
        IN  /\ fx0 = RMax(BRACKET_LOW, lo)
            /\ fx1 = RMin(<< 1, 2 >>, hi)
            /\ RLe(BRACKET_LOW, fx0)
            /\ RLe(fx1, << 1, 2 >>)
            /\ RLe(fx0, BRACKET_HIGH) <=> RLe(lo, BRACKET_HIGH)
            /\ InBracket(fx1) <=> InBracket(hi)
            /\ (InBracket(fx0) /\ InBracket(fx1)) <=> InBracket(hi)

\* Re = 2000 in a pipe of relative roughness 0.05: the second seed is above
\* the bracket, the first one within it
Wit_C13 ==
    /\ fpc = "secant"
    /\ fRe = Int2R(2000)
    /\ fEps = << 1, 20 >>
    /\ InBracket(fx0)
    /\ RLt(BRACKET_HIGH, fx1)
    /\ RLt(fx1, << 1, 2 >>)

=============================================================================
